---- MODULE Spec2Model ----
(***************************************************************************)
(* A model of src/main.cpp: the JSON value tree (json::JsonNode::Node),    *)
(* the recursive-descent parser (json::JsonParser::Parser) and the         *)
(* serializer (json::JsonSerializer::Serializer).                          *)
(*                                                                         *)
(* A text is a sequence of one-character strings.  The parser's cursor     *)
(* `pos' is a 0-based byte offset as in the source, so the character under *)
(* the cursor is text[pos + 1].  The recursion of parse_value through      *)
(* parse_array and parse_object is modelled with an explicit stack of the  *)
(* active container frames.                                                *)
(***************************************************************************)
EXTENDS Integers, Sequences, FiniteSets, TLC

(***************************************************************************)
(* Characters                                                              *)
(***************************************************************************)

\* std::isspace in the "C" locale (the vertical tab has no TLA+ escape).
WhiteSpace == {" ", "\t", "\n", "\f", "\r"}

Digits == <<"0", "1", "2", "3", "4", "5", "6", "7", "8", "9">>

DigitChars == {Digits[i] : i \in 1..Len(Digits)}

isspace(c) == c \in WhiteSpace

isdigit(c) == c \in DigitChars

\* The value of a digit character, and the character of a digit value.
DigitVal(c) == (CHOOSE i \in 1..Len(Digits) : Digits[i] = c) - 1

DigitChar(d) == Digits[d + 1]

\* What a read of the buffer outside its bounds stands for when it does not
\* trap: the string terminator, or any other byte.
NUL == "NUL"

\* The byte value of a character: std::string compares byte-wise, which
\* gives std::map<std::string, Node> its key order.
Ascii(c) ==
    CASE c = NUL -> 0
      [] c = "\t" -> 9
      [] c = "\n" -> 10
      [] c = "\f" -> 12
      [] c = "\r" -> 13
      [] c = " " -> 32
      [] c = "\"" -> 34
      [] c = "," -> 44
      [] c = "-" -> 45
      [] c = "." -> 46
      [] isdigit(c) -> 48 + DigitVal(c)
      [] c = ":" -> 58
      [] c = ";" -> 59
      [] c = "[" -> 91
      [] c = "]" -> 93
      [] c = "a" -> 97
      [] c = "b" -> 98
      [] c = "c" -> 99
      [] c = "e" -> 101
      [] c = "f" -> 102
      [] c = "l" -> 108
      [] c = "n" -> 110
      [] c = "r" -> 114
      [] c = "s" -> 115
      [] c = "t" -> 116
      [] c = "u" -> 117
      [] c = "{" -> 123
      [] c = "}" -> 125

Min(a, b) == IF a < b THEN a ELSE b

\* std::string_view::substr(p, n) for p <= size: the characters [p, p + n)
\* clamped to the end of the view.
substr(text, p, n) == SubSeq(text, p + 1, Min(p + n, Len(text)))

\* operator< of std::string: lexicographic on the bytes.
RECURSIVE StringLess(_, _)
StringLess(a, b) ==
    IF b = <<>> THEN FALSE
    ELSE IF a = <<>> THEN TRUE
    ELSE IF Ascii(Head(a)) # Ascii(Head(b)) THEN Ascii(Head(a)) < Ascii(Head(b))
    ELSE StringLess(Tail(a), Tail(b))

(***************************************************************************)
(* The value model: ValueType, a variant over seven alternatives.  An      *)
(* IntNode is kept as sign and decimal magnitude (most significant digit   *)
(* first, no leading zero), which keeps every 64-bit value exact.  A      *)
(* FloatNode is kept as the exact decimal mant * 10^exp with mant stripped *)
(* of leading and trailing zeros (<<>> for zero).  An ObjectNode is the    *)
(* std::map's sequence of entries in key order.                            *)
(***************************************************************************)

MonoNode == [t |-> "Null"]

BoolNode(b) == [t |-> "Bool", b |-> b]

IntNode(neg, mag) == [t |-> "Int", neg |-> neg, mag |-> mag]

FloatNode(mant, exp) == [t |-> "Float", mant |-> mant, exp |-> exp]

StringNode(s) == [t |-> "String", s |-> s]

ArrayNode(a) == [t |-> "Array", a |-> a]

ObjectNode(o) == [t |-> "Object", o |-> o]

\* Node(): a default-constructed node holds the empty alternative.
Node == MonoNode

\* std::optional<ValueType>: a returned value, or empty.
Some(v) == [has |-> TRUE, val |-> v]

Nothing == [has |-> FALSE]

(***************************************************************************)
(* std::map<std::string, Node>                                             *)
(***************************************************************************)

\* find: the index of key's entry, 0 when there is none.
MapFind(obj, key) ==
    IF \E i \in 1..Len(obj) : obj[i].k = key
    THEN CHOOSE i \in 1..Len(obj) : obj[i].k = key
    ELSE 0

\* The insertion of a new entry at its place in key order.
MapInsert(obj, key, val) ==
    LET n == Cardinality({i \in 1..Len(obj) : StringLess(obj[i].k, key)})
    IN  SubSeq(obj, 1, n) \o <<[k |-> key, v |-> val]>> \o SubSeq(obj, n + 1, Len(obj))

\* A map that inserts an entry at every access, as a std::multimap would.
MapSubscript_Multi(obj, key) == MapInsert(obj, key, Node)

\* operator[]: the entry of key, default-constructed when absent.
MapSubscript(obj, key) ==
    IF MapFind(obj, key) # 0 THEN obj ELSE MapInsert(obj, key, Node)

\* obj[key] = val
MapAssign(obj, key, val) ==
    LET o == MapSubscript(obj, key)
    IN  [o EXCEPT ![MapFind(o, key)].v = val]

(***************************************************************************)
(* Numeric conversions                                                     *)
(***************************************************************************)

\* The number of digit characters of s from index i (1-based) on.
RECURSIVE DigitRun(_, _)
DigitRun(s, i) ==
    IF i <= Len(s) /\ isdigit(s[i]) THEN 1 + DigitRun(s, i + 1) ELSE 0

RECURSIVE StripLeadingZeros(_)
StripLeadingZeros(d) ==
    IF d # <<>> /\ Head(d) = 0 THEN StripLeadingZeros(Tail(d)) ELSE d

RECURSIVE StripTrailingZeros(_)
StripTrailingZeros(d) ==
    IF d # <<>> /\ d[Len(d)] = 0 THEN StripTrailingZeros(SubSeq(d, 1, Len(d) - 1)) ELSE d

\* The digit values of the characters s[i .. i + n - 1].
DigitValues(s, i, n) == [j \in 1..n |-> DigitVal(s[i + j - 1])]

\* a <= b for magnitudes without leading zeros.
RECURSIVE MagLeq(_, _)
MagLeq(a, b) ==
    IF Len(a) # Len(b) THEN Len(a) < Len(b)
    ELSE IF a = <<>> THEN TRUE
    ELSE IF Head(a) # Head(b) THEN Head(a) < Head(b)
    ELSE MagLeq(Tail(a), Tail(b))

\* INT_MAX, the largest value std::stoi returns.
IntMax == <<2, 1, 4, 7, 4, 8, 3, 6, 4, 7>>

\* std::stoi(s) on the text parse_number hands it (digits only: the scan
\* accepts no sign): the value of the leading digits, widened to IntNode.
\* ok is FALSE where stoi throws: std::invalid_argument without a digit,
\* std::out_of_range beyond INT_MAX.
stoi(s) ==
    LET n   == DigitRun(s, 1)
        raw == StripLeadingZeros(DigitValues(s, 1, n))
        mag == IF raw = <<>> THEN <<0>> ELSE raw
    IN  IF n = 0 THEN [ok |-> FALSE, why |-> "invalid_argument"]
        ELSE IF ~MagLeq(mag, IntMax) THEN [ok |-> FALSE, why |-> "out_of_range"]
        ELSE [ok |-> TRUE, val |-> IntNode(FALSE, mag)]

\* The value of a short run of digits as a number.
RECURSIVE DigitsToNat(_)
DigitsToNat(d) ==
    IF d = <<>> THEN 0 ELSE 10 * DigitsToNat(SubSeq(d, 1, Len(d) - 1)) + d[Len(d)]

\* DBL_MAX_10_EXP: a decimal of greater magnitude overflows a double.
DblMax10Exp == 308

\* std::stod(s) on the text parse_number hands it (digits, '.' and 'e'):
\* strtod converts the longest prefix of the form  digits [. digits] [e digits]
\* with at least one mantissa digit; an 'e' without a digit after it is not
\* part of the number.  ok is FALSE where stod throws: std::invalid_argument
\* without a mantissa digit, std::out_of_range on overflow.  The result is
\* exact for the short literals of the model (under 16 significant digits).
stod(s) ==
    LET n1      == DigitRun(s, 1)
        hasDot  == n1 < Len(s) /\ s[n1 + 1] = "."
        n2      == IF hasDot THEN DigitRun(s, n1 + 2) ELSE 0
        mantEnd == n1 + (IF hasDot THEN 1 + n2 ELSE 0)
        n3      == IF mantEnd < Len(s) /\ s[mantEnd + 1] = "e"
                   THEN DigitRun(s, mantEnd + 2) ELSE 0
        expDig  == StripLeadingZeros(DigitValues(s, mantEnd + 2, n3))
        all     == DigitValues(s, 1, n1) \o DigitValues(s, n1 + 2, n2)
        lead    == StripLeadingZeros(all)
        mant    == StripTrailingZeros(lead)
        huge    == Len(expDig) > 3
        exp10   == (IF huge THEN 0 ELSE DigitsToNat(expDig)) - n2 + (Len(lead) - Len(mant))
    IN  IF n1 + n2 = 0 THEN [ok |-> FALSE, why |-> "invalid_argument"]
        ELSE IF mant = <<>> THEN [ok |-> TRUE, val |-> FloatNode(<<>>, 0)]
        ELSE IF huge \/ Len(mant) + exp10 - 1 > DblMax10Exp
             THEN [ok |-> FALSE, why |-> "out_of_range"]
        ELSE [ok |-> TRUE, val |-> FloatNode(mant, exp10)]

\* std::to_string(int64_t): a '-' for a negative value, then the decimal
\* digits.
to_string(v) ==
    (IF v.neg THEN <<"-">> ELSE <<>>) \o [i \in 1..Len(v.mag) |-> DigitChar(v.mag[i])]

(***************************************************************************)
(* Serializer                                                              *)
(***************************************************************************)

generate_string(str) == <<"\"">> \o str \o <<"\"">>

\* std::string::pop_back
pop_back(s) == SubSeq(s, 1, Len(s) - 1)

RECURSIVE generate(_)

\* The loop of generate_array: every element followed by a comma.
RECURSIVE ArrayItems(_)
ArrayItems(array) ==
    IF array = <<>> THEN <<>>
    ELSE generate(Head(array)) \o <<",">> \o ArrayItems(Tail(array))

generate_array(array) ==
    LET body == <<"[">> \o ArrayItems(array)
    IN  (IF array # <<>> THEN pop_back(body) ELSE body) \o <<"]">>

\* The loop of generate_object, over the entries in key order.
RECURSIVE ObjectItems(_)
ObjectItems(object) ==
    IF object = <<>> THEN <<>>
    ELSE generate_string(Head(object).k) \o <<":">> \o generate(Head(object).v)
         \o <<",">> \o ObjectItems(Tail(object))

generate_object(object) ==
    LET body == <<"{">> \o ObjectItems(object)
    IN  (IF object # <<>> THEN pop_back(body) ELSE body) \o <<"}">>

\* Serializer::generate, by the alternative held.  The FloatNode branch
\* (std::to_string(double)) is left out: no serialized value of the model
\* holds a FloatNode.
generate(node) ==
    CASE node.t = "Null" -> <<"n", "u", "l", "l">>
      [] node.t = "Bool" -> IF node.b THEN <<"t", "r", "u", "e">>
                                      ELSE <<"f", "a", "l", "s", "e">>
      [] node.t = "Int" -> to_string(node)
      [] node.t = "String" -> generate_string(node.s)
      [] node.t = "Array" -> generate_array(node.a)
      [] node.t = "Object" -> generate_object(node.o)

(***************************************************************************)
(* Node: the mutators of the value model                                   *)
(***************************************************************************)

\* A push that turns a node holding no array into an array of the value.
push_Vivify(value, rhs) ==
    IF value.t = "Array"
    THEN [node |-> ArrayNode(Append(value.a, rhs)), error |-> "none"]
    ELSE [node |-> ArrayNode(<<rhs>>), error |-> "none"]

\* Node::push(rhs): appends when the node holds an array, does nothing
\* otherwise.  error is what the call throws ("none": nothing).
push(value, rhs) ==
    IF value.t = "Array"
    THEN [node |-> ArrayNode(Append(value.a, rhs)), error |-> "none"]
    ELSE [node |-> value, error |-> "none"]

\* Node::operator[](key): the entry of key in the object held (inserted
\* default-constructed when absent); throws when no object is held.
subscript(value, key) ==
    IF value.t = "Object"
    THEN [node |-> ObjectNode(MapSubscript(value.o, key)), error |-> "none"]
    ELSE [node |-> value, error |-> "not an object"]

\* node[key] = rhs: the assignment through the reference operator[] returns.
subscript_assign(value, key, rhs) ==
    LET r == subscript(value, key)
    IN  IF r.error # "none" THEN r
        ELSE [node |-> ObjectNode(MapAssign(r.node.o, key, rhs)), error |-> "none"]

(***************************************************************************)
(* Bounds and inputs                                                       *)
(***************************************************************************)

\* The texts parsed include every concatenation of at most MaxFrags
\* fragments.
MaxFrags == 3

\* A string scan that runs off the end of the buffer reads at most
\* MaxOverrun bytes that are not a quote before it finds one or traps.
MaxOverrun == 2

\* The number of mutating calls made on a parsed node.
MaxOps == 2

Null4 == <<"n", "u", "l", "l">>

Fragments ==
    { Null4, <<"n", "u">>, <<"\"">>, <<"\"", "a", "\"">>, <<"[">>, <<"]">>, <<"{">>, <<"}">>,
      <<":">>, <<",">>, <<" ">>, <<"1">>, <<"e">>, <<"-">> }

RECURSIVE FragTexts(_)
FragTexts(n) ==
    IF n = 0 THEN {<<>>}
    ELSE LET shorter == FragTexts(n - 1)
         IN  shorter \cup {t \o f : t \in shorter, f \in Fragments}

\* {"test": 10}
MainValueText ==
    <<"{", "\"", "t", "e", "s", "t", "\"", ":", " ", "1", "0", "}">>

\* {"test": 10};   the text main() parses
MainText == MainValueText \o <<";">>

\* {"a":1,"a":2}
DupKeyText ==
    <<"{", "\"", "a", "\"", ":", "1", ",", "\"", "a", "\"", ":", "2", "}">>

\* "abc   with no closing quote
UnterminatedText == <<"\"", "a", "b", "c">>

Examples ==
    { MainValueText, MainText, DupKeyText, UnterminatedText,
      <<"[", "3", ",", "1", ",", "2", "]">>,
      <<"t", "r", "u", "e">>, <<"f", "a", "l", "s", "e">>,
      <<"t", "r", "u">>, <<"f", "a", "l", "s">>,
      <<"5">>, <<"5", ".", "0">>, <<"5", "e", "1">>, <<"1", "e", "9", "9", "9">>,
      <<"0", "0", "7">>, <<".">>, <<"1", ".", "2", ".", "3">>,
      <<"2", "1", "4", "7", "4", "8", "3", "6", "4", "8">>,
      <<"[", "-", "1", "]">>, <<"[", "n", "u", "]">>,
      <<"{", "\"", "a", "\"", ":", "-", "1", "}">>,
      <<"{", "1", ":", "2", "}">>, <<"[", "{", "1", ":", "2", "}", "]">>,
      <<"{", "\"", "a", "\"", ":", "{", "1", ":", "2", "}", "}">>,
      <<"{", "-", ":", "1", "}">>,
      <<"[", "1", ",", "2">>, <<"{", "\"", "a", "\"", ":", "1">>,
      <<"{", "\"", "a", "\"", ":">>, <<"{", "\"", "a", "\"">>,
      <<"[", "\"", "a">>, <<"[", "[", "1", "]", ",", "[", "]", "]">>,
      <<"{", "\"", "b", "\"", ":", "1", ",", "\"", "a", "\"", ":", "[", "n", "u", "l", "l", "]", "}">>,
      <<" ", "\n", "[", " ", "1", " ", ",", "\t", "2", " ", "]", "\r">>,
      <<"[", "1", ",", ",", "2", "]">>, <<"[", "1", " ", "2", "]">>,
      <<"[", "1", ",", "]">>, <<"{", "\"", "a", "\"", " ", "1", "}">> }

Texts == FragTexts(MaxFrags) \cup Examples

\* The nodes serialized and parsed back: no FloatNode, no string holding a
\* quote.  Integers include both ends of the 32-bit and of the 64-bit range.
IntSamples ==
    { IntNode(FALSE, <<0>>), IntNode(FALSE, <<7>>), IntNode(FALSE, <<1, 0>>),
      IntNode(TRUE, <<1>>), IntNode(TRUE, <<4, 2>>),
      IntNode(FALSE, IntMax),
      IntNode(FALSE, <<2, 1, 4, 7, 4, 8, 3, 6, 4, 8>>),
      IntNode(FALSE, <<9, 2, 2, 3, 3, 7, 2, 0, 3, 6, 8, 5, 4, 7, 7, 5, 8, 0, 7>>),
      IntNode(TRUE, <<9, 2, 2, 3, 3, 7, 2, 0, 3, 6, 8, 5, 4, 7, 7, 5, 8, 0, 8>>) }

StringSamples == { <<>>, <<"a">>, <<"a", " ", "b">> }

Leaves ==
    {MonoNode, BoolNode(TRUE), BoolNode(FALSE)} \cup IntSamples
        \cup {StringNode(s) : s \in StringSamples}

Elements ==
    { MonoNode, BoolNode(TRUE), IntNode(FALSE, <<7>>), IntNode(TRUE, <<1>>),
      StringNode(<<"a">>) }

\* The arrays of at most two of the nodes of S.
ArraysOf(S) ==
    {ArrayNode(<<>>)} \cup {ArrayNode(<<x>>) : x \in S}
        \cup {ArrayNode(<<x, y>>) : x \in S, y \in S}

\* The objects over the keys "a" and "b" with values among the nodes of S.
ObjectsOf(S) ==
    {ObjectNode(<<>>)}
        \cup {ObjectNode(<<[k |-> <<"a">>, v |-> x]>>) : x \in S}
        \cup {ObjectNode(<<[k |-> <<"b">>, v |-> x]>>) : x \in S}
        \cup {ObjectNode(<<[k |-> <<"a">>, v |-> x], [k |-> <<"b">>, v |-> y]>>) :
                x \in S, y \in S}

Containers == ArraysOf(Elements) \cup ObjectsOf(Elements)

Nested ==
    {ArrayNode(<<x>>) : x \in Containers}
        \cup {ObjectNode(<<[k |-> <<"a">>, v |-> x]>>) : x \in Containers}
        \cup {ArrayNode(<<IntNode(FALSE, <<7>>), x>>) : x \in ArraysOf({MonoNode})}

Values == Leaves \cup Containers \cup Nested

\* The input is a text of its own, not the serialization of a node.
NoSource == [t |-> "None"]

\* The texts appended to a parsed text before it is parsed again.
Suffixes == { <<";">>, <<"1">>, <<"e">>, <<".">>, <<"]">>, <<"\"">>, <<" ", "n">> }

\* The arguments of the mutating calls.
KeySamples == { <<"a">>, <<"b">> }

ValueSamples == { MonoNode, IntNode(FALSE, <<2>>) }

(***************************************************************************)
(* State                                                                   *)
(***************************************************************************)

VARIABLES
    input,      \* Parser::json_str, the text under parse
    pos,        \* Parser::pos, the cursor
    pc,         \* the statement the parser is at; "done" once parse() is left
    stack,      \* the active parse_array / parse_object calls, innermost last
    ret,        \* the optional the last parse_* call returned
    end_pos,    \* parse_string's end_pos while its scan is past the buffer
    outcome,    \* how parse() was left: "value", "empty", or the exception
                \* or trap that ended it; "running" before
    node,       \* the Node the caller holds after a successful parse
    oob,        \* the functions that read json_str at an index >= size()
    failure,    \* the `return {}' executed last and the nesting depth there
    source,     \* the node whose serialization input is, or NoSource
    first,      \* the result of the parse of the text without its suffix
    lastOp,     \* the last mutating call on node and the node before it
    written,    \* per key, the value last assigned in the object node holds
    nops        \* the number of mutating calls made

vars ==
    <<input, pos, pc, stack, ret, end_pos, outcome, node, oob, failure, source,
      first, lastOp, written, nops>>

size == Len(input)

NoFailure == [site |-> "none", depth |-> 0]

NoFirst == [outcome |-> "none"]

NoOp == [op |-> "none"]

\* The function with the entries of a map: key |-> value.
MapFunction(obj) ==
    [key \in {obj[i].k : i \in 1..Len(obj)} |-> obj[MapFind(obj, key)].v]

EmptyFunction == [key \in {} |-> MonoNode]

\* Parser(json_str): the cursor at the start of the text.
Init ==
    /\ source \in {NoSource} \cup Values
    /\ input \in (IF source = NoSource THEN Texts ELSE {generate(source)})
    /\ pos = 0
    /\ pc = "parse"
    /\ stack = <<>>
    /\ ret = Nothing
    /\ end_pos = 0
    /\ outcome = "running"
    /\ node = Node
    /\ oob = {}
    /\ failure = NoFailure
    /\ first = NoFirst
    /\ lastOp = NoOp
    /\ written = EmptyFunction
    /\ nops = 0

(***************************************************************************)
(* Parser                                                                  *)
(***************************************************************************)

RECURSIVE skip_whitespace(_, _)
skip_whitespace(text, p) ==
    IF p < Len(text) /\ isspace(text[p + 1]) THEN skip_whitespace(text, p + 1) ELSE p

\* The separator handling after an element or a member:
\*   skip_whitespace(); if (pos < size && json_str[pos] == sep) pos++;
\*   skip_whitespace();
AfterSeparator(text, p, sep) ==
    LET p1 == skip_whitespace(text, p)
        p2 == IF p1 < Len(text) /\ text[p1 + 1] = sep THEN p1 + 1 ELSE p1
    IN  skip_whitespace(text, p2)

\* The switch of parse_value on the character under the cursor.
Dispatch(c) ==
    CASE c = "n" -> "parse_null"
      [] c = "t" -> "parse_true"
      [] c = "f" -> "parse_false"
      [] c = "\"" -> "parse_string"
      [] c = "[" -> "parse_array"
      [] c = "{" -> "parse_object"
      [] OTHER -> "parse_number"

\* One byte for each case of the switch: what a read outside the buffer may
\* yield when it does not trap.
OutsideBytes == {NUL, "n", "t", "f", "\"", "[", "{"}

Top == stack[Len(stack)]

Pop == SubSeq(stack, 1, Len(stack) - 1)

Frame(fn) == [fn |-> fn, items |-> <<>>, key |-> <<>>, phase |-> "key", at |-> -1,
              log |-> EmptyFunction]

\* The parser keeps its text and the caller's state.
ParserFrame == UNCHANGED <<input, node, source, first, lastOp, written, nops>>

\* parse_* returns a value and leaves the cursor at p.
Return(v, p) ==
    /\ pos' = p
    /\ ret' = Some(v)
    /\ pc' = "return"
    /\ UNCHANGED <<stack, outcome, failure>>

\* parse_* executes `return {}' with the cursor at p.
ReturnEmpty(site, p) ==
    /\ pos' = p
    /\ ret' = Nothing
    /\ failure' = [site |-> site, depth |-> Len(stack)]
    /\ pc' = "return"
    /\ UNCHANGED <<stack, outcome>>

\* An exception nothing catches, or a trap, leaves parse() with the cursor
\* at p.
Throw(what, p) ==
    /\ pos' = p
    /\ outcome' = what
    /\ pc' = "done"
    /\ stack' = <<>>
    /\ ret' = Nothing
    /\ UNCHANGED failure

\* parse(): skip_whitespace(), then the call of parse_value.
Parse ==
    /\ pc = "parse"
    /\ pos' = skip_whitespace(input, pos)
    /\ pc' = "parse_value"
    /\ UNCHANGED <<stack, ret, end_pos, outcome, oob, failure>>
    /\ ParserFrame

\* parse_value with the cursor inside the text.
ParseValue ==
    /\ pc = "parse_value"
    /\ LET p == skip_whitespace(input, pos)
       IN  /\ p < size
           /\ pos' = p
           /\ pc' = Dispatch(input[p + 1])
    /\ UNCHANGED <<stack, ret, end_pos, outcome, oob, failure>>
    /\ ParserFrame

\* parse_value with the cursor at or past the end: json_str[pos] is read
\* outside the buffer, which yields some byte or traps.
ParseValueOverrun ==
    /\ pc = "parse_value"
    /\ LET p == skip_whitespace(input, pos)
       IN  /\ p >= size
           /\ \/ \E c \in OutsideBytes :
                    /\ pos' = p
                    /\ pc' = Dispatch(c)
                    /\ oob' = oob \cup {"parse_value"}
                    /\ UNCHANGED <<stack, ret, outcome, failure>>
              \/ /\ Throw("crash", p)
                 /\ oob' = oob \cup {"parse_value"}
    /\ UNCHANGED end_pos
    /\ ParserFrame

\* A literal parser that puts the cursor back at the start of the text when
\* the literal does not match.
ParseLiteral_Rewind(literal, value) ==
    IF pos > size THEN Throw("out_of_range", pos)
    ELSE IF substr(input, pos, Len(literal)) = literal
         THEN Return(value, pos + Len(literal))
         ELSE ReturnEmpty("literal", 0)

\* The body shared by parse_null, parse_true and parse_false: the literal
\* compared with json_str.substr(pos, n), which throws std::out_of_range for
\* pos > size.
ParseLiteral(literal, value) ==
    IF pos > size THEN Throw("out_of_range", pos)
    ELSE IF substr(input, pos, Len(literal)) = literal
         THEN Return(value, pos + Len(literal))
         ELSE ReturnEmpty("literal", pos)

ParseNull ==
    /\ pc = "parse_null"
    /\ ParseLiteral(<<"n", "u", "l", "l">>, MonoNode)
    /\ UNCHANGED <<end_pos, oob>>
    /\ ParserFrame

ParseTrue ==
    /\ pc = "parse_true"
    /\ ParseLiteral(<<"t", "r", "u", "e">>, BoolNode(TRUE))
    /\ UNCHANGED <<end_pos, oob>>
    /\ ParserFrame

ParseFalse ==
    /\ pc = "parse_false"
    /\ ParseLiteral(<<"f", "a", "l", "s", "e">>, BoolNode(FALSE))
    /\ UNCHANGED <<end_pos, oob>>
    /\ ParserFrame

\* The scan of parse_number: the first index from p on that is past the
\* text or holds neither a digit, 'e' nor '.'.
RECURSIVE NumberEnd(_, _)
NumberEnd(text, p) ==
    IF p < Len(text) /\ (isdigit(text[p + 1]) \/ text[p + 1] = "e" \/ text[p + 1] = ".")
    THEN NumberEnd(text, p + 1)
    ELSE p

is_Float(number_str) ==
    \E i \in 1..Len(number_str) : number_str[i] = "." \/ number_str[i] = "e"

\* A conversion that, like atoi, yields 0 for a text that holds no number.
ConvertNumber_Lenient(number_str) ==
    LET r == IF is_Float(number_str) THEN stod(number_str) ELSE stoi(number_str)
    IN  IF r.ok THEN r ELSE [ok |-> TRUE, val |-> IntNode(FALSE, <<0>>)]

\* The conversion of the scanned text: std::stod when it holds '.' or 'e',
\* std::stoi otherwise.
ConvertNumber(number_str) ==
    IF is_Float(number_str) THEN stod(number_str) ELSE stoi(number_str)

\* parse_number: substr(pos, endpos - pos) throws std::out_of_range for
\* pos > size; the cursor moves to endpos before the conversion, whose
\* exceptions are caught and turned into `return {}'.
ParseNumber ==
    /\ pc = "parse_number"
    /\ IF pos > size THEN Throw("out_of_range", pos)
       ELSE LET endpos     == NumberEnd(input, pos)
                number_str == substr(input, pos, endpos - pos)
                r          == ConvertNumber(number_str)
            IN  IF r.ok THEN Return(r.val, endpos) ELSE ReturnEmpty("number", endpos)
    /\ UNCHANGED <<end_pos, oob>>
    /\ ParserFrame

\* The quotes of the text at an index in [p, size).
QuotesFrom(p) == {q \in p..(size - 1) : input[q + 1] = "\""}

SetMin(S) == CHOOSE x \in S : \A y \in S : x <= y

\* parse_string while its scan stays inside the text.  The loop condition
\* tests pos, not end_pos: with the opening quote last in the text the loop
\* does not run (and substr throws for pos > size); with no closing quote
\* the scan reaches end_pos = size and goes on outside the buffer.
ParseString ==
    /\ pc = "parse_string"
    /\ LET p == pos + 1
       IN  IF p > size THEN Throw("out_of_range", p) /\ UNCHANGED end_pos
           ELSE IF p = size THEN Return(StringNode(<<>>), p + 1) /\ UNCHANGED end_pos
           ELSE IF QuotesFrom(p) # {}
                THEN LET q == SetMin(QuotesFrom(p))
                     IN  /\ Return(StringNode(substr(input, p, q - p)), q + 1)
                         /\ UNCHANGED end_pos
                ELSE /\ pos' = p
                     /\ end_pos' = size
                     /\ pc' = "string_scan"
                     /\ UNCHANGED <<stack, ret, outcome, failure>>
    /\ UNCHANGED oob
    /\ ParserFrame

\* The scan of parse_string past the buffer: json_str[end_pos] is read with
\* end_pos >= size, which yields a quote, another byte or a trap.  After a
\* quote the string is substr(pos, end_pos - pos), clamped to the text, and
\* the cursor is left at end_pos + 1.
ParseStringOverrun ==
    /\ pc = "string_scan"
    /\ oob' = oob \cup {"parse_string"}
    /\ \/ /\ Return(StringNode(substr(input, pos, end_pos - pos)), end_pos + 1)
          /\ end_pos' = 0
       \/ /\ end_pos - size < MaxOverrun
          /\ end_pos' = end_pos + 1
          /\ UNCHANGED <<pos, pc, stack, ret, outcome, failure>>
       \/ /\ Throw("crash", pos)
          /\ end_pos' = 0
    /\ ParserFrame

\* parse_array up to its loop: pos++ over the '['.
ParseArray ==
    /\ pc = "parse_array"
    /\ pos' = pos + 1
    /\ stack' = Append(stack, Frame("array"))
    /\ pc' = "array_loop"
    /\ UNCHANGED <<ret, end_pos, outcome, oob, failure>>
    /\ ParserFrame

\* A loop test of parse_array that returns empty for an array the text does
\* not close.
ArrayLoop_Strict ==
    /\ pc = "array_loop"
    /\ IF pos < size /\ input[pos + 1] # "]"
       THEN /\ stack' = [stack EXCEPT ![Len(stack)].at = pos]
            /\ pc' = "parse_value"
            /\ UNCHANGED <<pos, ret, outcome, failure>>
       ELSE IF pos >= size
            THEN /\ pos' = pos
                 /\ ret' = Nothing
                 /\ failure' = [site |-> "delimiter", depth |-> Len(stack)]
                 /\ stack' = Pop
                 /\ pc' = "return"
                 /\ UNCHANGED outcome
            ELSE /\ pos' = pos + 1
                 /\ ret' = Some(ArrayNode(Top.items))
                 /\ stack' = Pop
                 /\ pc' = "return"
                 /\ UNCHANGED <<outcome, failure>>
    /\ UNCHANGED <<end_pos, oob>>
    /\ ParserFrame

\* The loop test of parse_array: another element (the frame remembers where
\* the iteration started), or pos++ over the ']' and the array returned.
ArrayLoop ==
    /\ pc = "array_loop"
    /\ IF pos < size /\ input[pos + 1] # "]"
       THEN /\ stack' = [stack EXCEPT ![Len(stack)].at = pos]
            /\ pc' = "parse_value"
            /\ UNCHANGED <<pos, ret, outcome, failure>>
       ELSE /\ pos' = pos + 1
            /\ ret' = Some(ArrayNode(Top.items))
            /\ stack' = Pop
            /\ pc' = "return"
            /\ UNCHANGED <<outcome, failure>>
    /\ UNCHANGED <<end_pos, oob>>
    /\ ParserFrame

\* The loop body of parse_array after parse_value: value.value() throws
\* std::bad_optional_access on an empty optional; otherwise the element is
\* appended and the separator skipped.
ArrayElement ==
    /\ pc = "return"
    /\ stack # <<>>
    /\ Top.fn = "array"
    /\ IF ~ret.has THEN Throw("bad_optional_access", pos)
       ELSE /\ stack' = [stack EXCEPT ![Len(stack)].items = Append(@, ret.val)]
            /\ pos' = AfterSeparator(input, pos, ",")
            /\ pc' = "array_loop"
            /\ ret' = Nothing
            /\ UNCHANGED <<outcome, failure>>
    /\ UNCHANGED <<end_pos, oob>>
    /\ ParserFrame

\* parse_object up to its loop: pos++ over the '{'.
ParseObject ==
    /\ pc = "parse_object"
    /\ pos' = pos + 1
    /\ stack' = Append(stack, Frame("object"))
    /\ pc' = "object_loop"
    /\ UNCHANGED <<ret, end_pos, outcome, oob, failure>>
    /\ ParserFrame

\* The loop test of parse_object: another member, starting with the
\* parse_value of its key, or pos++ over the '}' and the object returned.
ObjectLoop ==
    /\ pc = "object_loop"
    /\ IF pos < size /\ input[pos + 1] # "}"
       THEN /\ stack' = [stack EXCEPT ![Len(stack)].at = pos,
                                      ![Len(stack)].phase = "key"]
            /\ pc' = "parse_value"
            /\ UNCHANGED <<pos, ret, outcome, failure>>
       ELSE /\ pos' = pos + 1
            /\ ret' = Some(ObjectNode(Top.items))
            /\ stack' = Pop
            /\ pc' = "return"
            /\ UNCHANGED <<outcome, failure>>
    /\ UNCHANGED <<end_pos, oob>>
    /\ ParserFrame

\* The loop body of parse_object after the parse_value of the key:
\* skip_whitespace(); key.value() throws on an empty optional; a key that
\* is no string makes parse_object `return {}'; otherwise a ':' is skipped
\* if there is one and parse_value is called for the member's value.
ObjectKey ==
    /\ pc = "return"
    /\ stack # <<>>
    /\ Top.fn = "object"
    /\ Top.phase = "key"
    /\ LET p == skip_whitespace(input, pos)
       IN  IF ~ret.has THEN Throw("bad_optional_access", p)
           ELSE IF ret.val.t # "String"
                THEN /\ pos' = p
                     /\ ret' = Nothing
                     /\ failure' = [site |-> "key", depth |-> Len(stack)]
                     /\ stack' = Pop
                     /\ pc' = "return"
                     /\ UNCHANGED outcome
                ELSE /\ pos' = skip_whitespace(input,
                                   IF p < size /\ input[p + 1] = ":" THEN p + 1 ELSE p)
                     /\ stack' = [stack EXCEPT ![Len(stack)].key = ret.val.s,
                                               ![Len(stack)].phase = "value"]
                     /\ ret' = Nothing
                     /\ pc' = "parse_value"
                     /\ UNCHANGED <<outcome, failure>>
    /\ UNCHANGED <<end_pos, oob>>
    /\ ParserFrame

\* The loop body of parse_object after the parse_value of the value:
\* val.value() throws on an empty optional; otherwise obj[key] = Node{val}
\* and the separator is skipped.
ObjectValue ==
    /\ pc = "return"
    /\ stack # <<>>
    /\ Top.fn = "object"
    /\ Top.phase = "value"
    /\ IF ~ret.has THEN Throw("bad_optional_access", pos)
       ELSE /\ stack' = [stack EXCEPT
                           ![Len(stack)].items = MapAssign(@, Top.key, ret.val),
                           ![Len(stack)].log = [k \in DOMAIN @ \cup {Top.key} |->
                                                  IF k = Top.key THEN ret.val ELSE @[k]],
                           ![Len(stack)].phase = "key"]
            /\ pos' = AfterSeparator(input, pos, ",")
            /\ pc' = "object_loop"
            /\ ret' = Nothing
            /\ UNCHANGED <<outcome, failure>>
    /\ UNCHANGED <<end_pos, oob>>
    /\ ParserFrame

\* A parse() that also returns empty when text is left after the value.
ParseReturn_Strict ==
    /\ pc = "return"
    /\ stack = <<>>
    /\ pc' = "done"
    /\ ret' = Nothing
    /\ IF ~ret.has \/ pos < size
       THEN outcome' = "empty" /\ UNCHANGED <<node, written>>
       ELSE /\ outcome' = "value"
            /\ node' = ret.val
            /\ written' = IF ret.val.t = "Object" THEN MapFunction(ret.val.o)
                          ELSE EmptyFunction
    /\ UNCHANGED <<input, pos, stack, end_pos, oob, failure, source, first, lastOp, nops>>

\* parse() after parse_value: an empty optional is returned as empty, a value
\* wrapped in a Node.
ParseReturn ==
    /\ pc = "return"
    /\ stack = <<>>
    /\ pc' = "done"
    /\ ret' = Nothing
    /\ IF ~ret.has
       THEN outcome' = "empty" /\ UNCHANGED <<node, written>>
       ELSE /\ outcome' = "value"
            /\ node' = ret.val
            /\ written' = IF ret.val.t = "Object" THEN MapFunction(ret.val.o)
                          ELSE EmptyFunction
    /\ UNCHANGED <<input, pos, stack, end_pos, oob, failure, source, first, lastOp, nops>>

(***************************************************************************)
(* The caller: mutating calls on the parsed node, and a second parse       *)
(***************************************************************************)

\* node.push(rhs)
Push ==
    /\ pc = "done" /\ outcome = "value" /\ first = NoFirst /\ nops < MaxOps
    /\ \E rhs \in ValueSamples :
          LET r == push(node, rhs)
          IN  /\ node' = r.node
              /\ lastOp' = [op |-> "push", before |-> node, key |-> <<>>,
                            arg |-> rhs, error |-> r.error]
    /\ nops' = nops + 1
    /\ UNCHANGED <<input, pos, pc, stack, ret, end_pos, outcome, oob, failure, source,
                   first, written>>

\* node[key], as main() reads node["test"]
Subscript ==
    /\ pc = "done" /\ outcome = "value" /\ first = NoFirst /\ nops < MaxOps
    /\ \E key \in KeySamples :
          LET r == subscript(node, key)
          IN  /\ node' = r.node
              /\ lastOp' = [op |-> "subscript", before |-> node, key |-> key,
                            arg |-> MonoNode, error |-> r.error]
              /\ written' = IF r.error = "none" /\ key \notin DOMAIN written
                            THEN [k \in DOMAIN written \cup {key} |->
                                    IF k = key THEN Node ELSE written[k]]
                            ELSE written
    /\ nops' = nops + 1
    /\ UNCHANGED <<input, pos, pc, stack, ret, end_pos, outcome, oob, failure, source,
                   first>>

\* node[key] = rhs
SubscriptAssign ==
    /\ pc = "done" /\ outcome = "value" /\ first = NoFirst /\ nops < MaxOps
    /\ \E key \in KeySamples, rhs \in ValueSamples :
          LET r == subscript_assign(node, key, rhs)
          IN  /\ node' = r.node
              /\ lastOp' = [op |-> "assign", before |-> node, key |-> key,
                            arg |-> rhs, error |-> r.error]
              /\ written' = IF r.error = "none"
                            THEN [k \in DOMAIN written \cup {key} |->
                                    IF k = key THEN rhs ELSE written[k]]
                            ELSE written
    /\ nops' = nops + 1
    /\ UNCHANGED <<input, pos, pc, stack, ret, end_pos, outcome, oob, failure, source,
                   first>>

\* Node::from_str(text + suffix) after a successful Node::from_str(text): a
\* new Parser over the longer text.
Reparse ==
    /\ pc = "done" /\ outcome = "value" /\ first = NoFirst /\ nops = 0
    /\ \E suffix \in Suffixes :
          /\ first' = [outcome |-> outcome, node |-> node, pos |-> pos, size |-> size,
                       suffix |-> suffix]
          /\ input' = input \o suffix
    /\ pos' = 0
    /\ pc' = "parse"
    /\ outcome' = "running"
    /\ node' = Node
    /\ oob' = {}
    /\ failure' = NoFailure
    /\ written' = EmptyFunction
    /\ UNCHANGED <<stack, ret, end_pos, source, lastOp, nops>>

ParserStep ==
    \/ Parse
    \/ ParseValue
    \/ ParseValueOverrun
    \/ ParseNull
    \/ ParseTrue
    \/ ParseFalse
    \/ ParseNumber
    \/ ParseString
    \/ ParseStringOverrun
    \/ ParseArray
    \/ ArrayLoop
    \/ ArrayElement
    \/ ParseObject
    \/ ObjectLoop
    \/ ObjectKey
    \/ ObjectValue
    \/ ParseReturn

Next ==
    \/ ParserStep
    \/ Push
    \/ Subscript
    \/ SubscriptAssign
    \/ Reparse

Spec == Init /\ [][Next]_vars

\* One parse of each input, without the caller's further calls.  The parser
\* is straight-line code on one thread: a statement that can run does run.
LiveSpec == Init /\ [][ParserStep]_vars /\ WF_vars(ParserStep)

(***************************************************************************)
(* Properties                                                              *)
(***************************************************************************)

\* The first parse of the text has returned and the node is untouched.
Parsed == pc = "done" /\ first = NoFirst /\ nops = 0

\* C1: round trip.  For every node v without FloatNode and without a quote
\* in a string, the parse of generate(v) succeeds and yields v.
C1_RoundTrip ==
    (Parsed /\ source # NoSource) => (outcome = "value" /\ node = source)

\* The text opens a string with its first character and holds no other
\* quote.
UnterminatedString ==
    /\ first = NoFirst
    /\ input # <<>>
    /\ input[1] = "\""
    /\ \A i \in 2..Len(input) : input[i] # "\""

\* C2: unterminated string boundary.  The parse of a text that opens a
\* string and never closes it returns empty, and the string scan reads no
\* index at or beyond the length of the text.
C2_UnterminatedStringFailsCleanly ==
    UnterminatedString =>
        /\ "parse_string" \notin oob
        /\ pc = "done" => outcome = "empty"

NumberChars == DigitChars \cup {".", "e"}

\* C3 as stated: whatever the suffix, the parse of a parsed text followed by
\* the suffix succeeds with the same node.
C3_AnySuffixIgnored ==
    (pc = "done" /\ first # NoFirst) => (outcome = "value" /\ node = first.node)

\* C3 as amended: the suffix is ignored when the parse of the text stopped
\* inside the text or at its end, unless the value is a number that ends the
\* text and the suffix starts with a character a number may hold.
C3_SuffixIgnoredAfterCompleteValue ==
    ( /\ pc = "done"
      /\ first # NoFirst
      /\ first.pos <= first.size
      /\ ~ ( /\ first.pos = first.size
             /\ first.node.t \in {"Int", "Float"}
             /\ Head(first.suffix) \in NumberChars ) )
    => (outcome = "value" /\ node = first.node)

C3_Witness ==
    /\ pc = "done"
    /\ first # NoFirst
    /\ input = MainText
    /\ first.suffix = <<";">>
    /\ outcome = "value"
    /\ node = ObjectNode(<<[k |-> <<"t", "e", "s", "t">>, v |-> IntNode(FALSE, <<1, 0>>)]>>)

\* C4: nested failure propagation.  When the parse of a value inside an
\* array or object fails (a number that does not convert, a key that is no
\* string), parse() returns empty: nothing is thrown.
C4_NestedFailureReturned ==
    (pc = "done" /\ failure.site \in {"number", "key"} /\ failure.depth > 0)
        => outcome = "empty"

\* C5 as stated: parse() returns empty only for a number that does not
\* convert or a key that is no string (here for the parses that read
\* nothing outside the text, where the behaviour is defined).
C5_EmptyOnlyForNumberOrKey ==
    (pc = "done" /\ outcome = "empty" /\ oob = {}) => failure.site \in {"number", "key"}

\* C5 as amended: parse() returns empty only for a number that does not
\* convert, a key that is no string, or a literal starting with n, t or f
\* that does not spell null, true or false.
C5_EmptyOnlyForNumberKeyOrLiteral ==
    (pc = "done" /\ outcome = "empty") => failure.site \in {"number", "key", "literal"}

C5_Witness ==
    /\ pc = "done"
    /\ outcome = "empty"
    /\ failure.site = "literal"
    /\ input = <<"t", "r", "u">>

\* The text opens an array or an object with its first character and holds
\* no closing delimiter at all.
UnclosedContainer ==
    /\ first = NoFirst
    /\ input # <<>>
    /\ input[1] \in {"[", "{"}
    /\ \A i \in 1..Len(input) : input[i] \notin {"]", "}"}

\* C6: bounds safety.  No input makes the parser read the text at an index
\* at or beyond its length, and the parse of a text whose array or object is
\* not closed returns empty.
C6_BoundsSafety ==
    /\ oob = {}
    /\ (pc = "done" /\ UnclosedContainer) => outcome = "empty"

UniqueKeys(obj) ==
    \A i, j \in 1..Len(obj) : obj[i].k = obj[j].k => i = j

\* C7: object key uniqueness.  In every object under construction by the
\* parser and in the object node after any mutating calls, each key occurs
\* once and maps to the value written last for it; {"a":1,"a":2} parses to
\* the object with the one key "a" mapped to 2.
C7_KeysUniqueLastWriteWins ==
    /\ \A i \in 1..Len(stack) :
          stack[i].fn = "object" =>
              /\ UniqueKeys(stack[i].items)
              /\ MapFunction(stack[i].items) = stack[i].log
    /\ (pc = "done" /\ outcome = "value" /\ node.t = "Object") =>
          /\ UniqueKeys(node.o)
          /\ MapFunction(node.o) = written
    /\ (Parsed /\ input = DupKeyText) =>
          node = ObjectNode(<<[k |-> <<"a">>, v |-> IntNode(FALSE, <<2>>)]>>)

C7_Witness ==
    /\ pc = "done"
    /\ input = DupKeyText
    /\ lastOp.op = "assign"
    /\ lastOp.key = <<"a">>
    /\ lastOp.before = ObjectNode(<<[k |-> <<"a">>, v |-> IntNode(FALSE, <<2>>)]>>)
    /\ node = ObjectNode(<<[k |-> <<"a">>, v |-> MonoNode]>>)

\* C8: push frame effect.  push on a node that holds no array changes
\* nothing and throws nothing; on an array it adds the value as the new last
\* element and leaves the elements before it as they were.
C8_PushFrame ==
    lastOp.op = "push" =>
        /\ lastOp.error = "none"
        /\ IF lastOp.before.t # "Array" THEN node = lastOp.before
           ELSE /\ node.t = "Array"
                /\ Len(node.a) = Len(lastOp.before.a) + 1
                /\ node.a[Len(node.a)] = lastOp.arg
                /\ \A i \in 1..Len(lastOp.before.a) : node.a[i] = lastOp.before.a[i]

C8_Witness ==
    /\ lastOp.op = "push"
    /\ lastOp.before.t = "Object"
    /\ Len(lastOp.before.o) > 0
    /\ node = lastOp.before
    /\ nops = MaxOps

\* C9: cursor monotonicity.  No step of a parse moves the cursor backwards
\* (a step that changes `first' starts the parse of another text).
C9_CursorMonotone == [][first' = first => pos' >= pos]_vars

C9_Witness ==
    /\ pc = "return"
    /\ failure.site = "number"
    /\ stack # <<>>
    /\ Top.at >= 0
    /\ pos > Top.at + 1

\* An iteration of the loop of parse_array or parse_object that comes back
\* to the loop test has moved the cursor forward.
LoopAdvances ==
    (pc \in {"array_loop", "object_loop"} /\ Top.at >= 0) => pos > Top.at

\* C10: termination.  Every parse ends (with a value, empty, or an
\* exception), and every iteration of the array loop and of the object loop
\* that does not end the parse moves the cursor forward.
C10_Terminates == []LoopAdvances /\ <>(pc = "done")

C10_Witness ==
    /\ pc = "array_loop"
    /\ Len(Top.items) = 2
    /\ pos >= size
    /\ input = <<"[", "1", ",", "2">>

====
